---- MODULE Spec2Model ----
(***************************************************************************)
(* Bible presenter: the resolution pipeline of the pipe engine             *)
(* (desktop/src/core-engine/engine.py) and of the backend                  *)
(* (backend/main.py).  Texts are strings over ASCII, read character by     *)
(* character the way the regular expressions of the source read them.     *)
(***************************************************************************)
EXTENDS Integers, Sequences, FiniteSets, TLC

(***************************************************************************)
(* Strings                                                                 *)
(***************************************************************************)
None == "<None>"

CharAt(s, i) == IF i >= 1 /\ i <= Len(s) THEN SubSeq(s, i, i) ELSE ""

UpperChars == "ABCDEFGHIJKLMNOPQRSTUVWXYZ"
LowerChars == "abcdefghijklmnopqrstuvwxyz"
DigitChars == "0123456789"

\* the characters of a string, as a set
Chars(str) == {SubSeq(str, i, i) : i \in 1..Len(str)}

IndexIn(c, alphabet) ==
    IF \E i \in 1..Len(alphabet) : CharAt(alphabet, i) = c
    THEN CHOOSE i \in 1..Len(alphabet) : CharAt(alphabet, i) = c
    ELSE 0

\* the classes \d, \w and \s of the re module
Digit == Chars(DigitChars)
Word  == Chars(LowerChars) \cup Chars(UpperChars) \cup Chars(DigitChars) \cup {"_"}
Space == {" ", "\t", "\n", "\r", "\f"}

IsDigit(c) == c \in Digit
IsWordChar(c) == c \in Word
IsSpace(c) == c \in Space

LowerChar(c) == LET i == IndexIn(c, UpperChars)
                IN  IF i > 0 THEN CharAt(LowerChars, i) ELSE c

RECURSIVE lower(_)
lower(s) == IF s = "" THEN "" ELSE LowerChar(Head(s)) \o lower(Tail(s))

RECURSIVE lstrip(_)
lstrip(s) == IF s # "" /\ IsSpace(Head(s)) THEN lstrip(Tail(s)) ELSE s

RECURSIVE rstrip(_)
rstrip(s) == IF s # "" /\ IsSpace(CharAt(s, Len(s)))
             THEN rstrip(SubSeq(s, 1, Len(s) - 1)) ELSE s

strip(s) == rstrip(lstrip(s))

startswith(s, prefix) ==
    Len(prefix) <= Len(s) /\ SubSeq(s, 1, Len(prefix)) = prefix

\* int(s) of a string of decimal digits
RECURSIVE DigitsValue(_)
DigitsValue(s) ==
    IF s = "" THEN 0
    ELSE 10 * DigitsValue(SubSeq(s, 1, Len(s) - 1))
         + (IndexIn(CharAt(s, Len(s)), DigitChars) - 1)

AllDigits(s) == s # "" /\ \A i \in 1..Len(s) : IsDigit(CharAt(s, i))

\* \b of the re module at position p (between characters p-1 and p)
WordBoundary(s, p) ==
    (p > 1 /\ IsWordChar(CharAt(s, p - 1))) # (p <= Len(s) /\ IsWordChar(CharAt(s, p)))

(***************************************************************************)
(* Regular expressions of the re module.  A pattern is a tree; Run lists   *)
(* every way the backtracking matcher can match a node at a position, in   *)
(* the order in which it tries them: a greedy repetition tries one more    *)
(* round before it stops, a lazy one stops before it tries one more, an    *)
(* alternation tries its branches from left to right.  The match the       *)
(* module reports is the first of the list.  An outcome is                 *)
(* <<position after the match, the groups captured so far>>.               *)
(***************************************************************************)
Unbounded == -1

Lit(str)  == [t |-> "lit", s |-> str]          \* text, under re.IGNORECASE
Set(cs)   == [t |-> "set", cs |-> cs]          \* one character of a class
AnyChar   == [t |-> "any"]                     \* .
Bol       == [t |-> "bol"]                     \* ^
Eol       == [t |-> "eol"]                     \* $
Wb        == [t |-> "wb"]                      \* \b
Cat(xs)   == [t |-> "seq", xs |-> xs]          \* x1 x2 ...
Alt(xs)   == [t |-> "alt", xs |-> xs]          \* x1|x2|...
Grp(n, x) == [t |-> "grp", n |-> n, x |-> x]   \* ( ) numbered n
NotAhead(x) == [t |-> "nla", x |-> x]          \* (?! )
Rep(x, min, max, greedy) ==
    [t |-> "rep", x |-> x, min |-> min, max |-> max, greedy |-> greedy]
Opt(x)      == Rep(x, 0, 1, TRUE)              \* x?
Star(x)     == Rep(x, 0, Unbounded, TRUE)      \* x*
Plus(x)     == Rep(x, 1, Unbounded, TRUE)      \* x+
PlusLazy(x) == Rep(x, 1, Unbounded, FALSE)     \* x+?

\* a compiled pattern: its tree and the number of its groups
Pattern(groups, xs) == [node |-> Cat(xs), groups |-> groups]

One(p, caps) == << <<p, caps>> >>

\* group n of every outcome is set to the text matched from p
Capture(rs, n, s, p) ==
    [k \in 1..Len(rs) |->
        <<rs[k][1], [rs[k][2] EXCEPT ![n] = SubSeq(s, p, rs[k][1] - 1)]>>]

RECURSIVE Run(_, _, _, _)
RECURSIVE Then(_, _, _, _)
RECURSIVE RunSeq(_, _, _, _)
RECURSIVE RunAlt(_, _, _, _, _)
RECURSIVE RunRep(_, _, _, _, _)
RECURSIVE RepMore(_, _, _, _, _, _)

\* the outcomes of node after each of the outcomes rs[k], rs[k+1], ...
Then(rs, k, node, s) ==
    IF k > Len(rs) THEN <<>>
    ELSE Run(node, s, rs[k][1], rs[k][2]) \o Then(rs, k + 1, node, s)

\* the nodes xs[i], xs[i+1], ... in a row after the outcomes rs
RunSeq(xs, i, s, rs) ==
    IF i > Len(xs) \/ rs = <<>> THEN rs
    ELSE RunSeq(xs, i + 1, s, Then(rs, 1, xs[i], s))

RunAlt(xs, i, s, p, caps) ==
    IF i > Len(xs) THEN <<>>
    ELSE Run(xs[i], s, p, caps) \o RunAlt(xs, i + 1, s, p, caps)

\* after the outcomes rs of round number `count` of the body, begun at p
\* (no body of the patterns below can match the empty string)
RepMore(rs, k, re, count, s, p) ==
    IF k > Len(rs) THEN <<>>
    ELSE (IF rs[k][1] > p THEN RunRep(re, count, s, rs[k][1], rs[k][2]) ELSE <<>>)
         \o RepMore(rs, k + 1, re, count, s, p)

\* a node that matches one character: does it match c
Accepts(x, c) == IF x.t = "set" THEN c \in x.cs ELSE c # "" /\ c # "\n"

\* how many characters in a row from p on the one-character node x matches
RunLength(x, s, p) ==
    CHOOSE k \in 0..(Len(s) + 1 - p) :
        /\ \A j \in 0..(k - 1) : Accepts(x, CharAt(s, p + j))
        /\ ~Accepts(x, CharAt(s, p + k))

\* a repetition of a one-character node: it can take min, min+1, ... up to
\* run (or max) characters; greedy tries the longest first, lazy the shortest
RepChars(re, s, p, caps, run) ==
    LET most == IF re.max # Unbounded /\ re.max < run THEN re.max ELSE run
    IN  [k \in 1..(most + 1 - re.min) |->
            <<p + (IF re.greedy THEN most + 1 - k ELSE re.min + k - 1), caps>>]

\* a repetition of which `count` rounds are done
RunRep(re, count, s, p, caps) ==
    LET more == IF re.max # Unbounded /\ count >= re.max THEN <<>>
                ELSE RepMore(Run(re.x, s, p, caps), 1, re, count + 1, s, p)
        stop == IF count >= re.min THEN One(p, caps) ELSE <<>>
    IN  IF re.greedy THEN more \o stop ELSE stop \o more

Run(re, s, p, caps) ==
    CASE re.t = "lit" ->
           IF /\ p + Len(re.s) - 1 <= Len(s)
              /\ lower(SubSeq(s, p, p + Len(re.s) - 1)) = lower(re.s)
           THEN One(p + Len(re.s), caps) ELSE <<>>
      [] re.t = "set" ->
           IF p <= Len(s) /\ CharAt(s, p) \in re.cs THEN One(p + 1, caps) ELSE <<>>
      [] re.t = "any" ->
           IF p <= Len(s) /\ CharAt(s, p) # "\n" THEN One(p + 1, caps) ELSE <<>>
      [] re.t = "bol" -> IF p = 1 THEN One(p, caps) ELSE <<>>
      [] re.t = "eol" ->
           IF p = Len(s) + 1 \/ (p = Len(s) /\ CharAt(s, p) = "\n")
           THEN One(p, caps) ELSE <<>>
      [] re.t = "wb"  -> IF WordBoundary(s, p) THEN One(p, caps) ELSE <<>>
      [] re.t = "nla" ->
           IF Run(re.x, s, p, caps) = <<>> THEN One(p, caps) ELSE <<>>
      [] re.t = "grp" -> Capture(Run(re.x, s, p, caps), re.n, s, p)
      [] re.t = "seq" -> RunSeq(re.xs, 1, s, One(p, caps))
      [] re.t = "alt" -> RunAlt(re.xs, 1, s, p, caps)
      [] re.t = "rep" ->
           IF re.x.t \in {"set", "any"}
           THEN RepChars(re, s, p, caps, RunLength(re.x, s, p))
           ELSE RunRep(re, 0, s, p, caps)

\* a match object: its span and match.groups(), None for a group that took
\* no part; ok is FALSE where the module returns None
NoMatch == [ok |-> FALSE, start |-> 0, end |-> 0, groups |-> <<>>]

FirstOutcome(rs, p) ==
    IF rs = <<>> THEN NoMatch
    ELSE [ok |-> TRUE, start |-> p, end |-> rs[1][1], groups |-> rs[1][2]]

MatchAt(pattern, s, p) ==
    FirstOutcome(Run(pattern.node, s, p, [i \in 1..pattern.groups |-> None]), p)

\* re.match(pattern, s, re.IGNORECASE)
re_match(pattern, s) == MatchAt(pattern, s, 1)

\* re.finditer(pattern, s, re.IGNORECASE) from position p on: the matches from
\* left to right, each search starting where the match before it ended
RECURSIVE FindFrom(_, _, _)
RECURSIVE FindNext(_, _, _, _)
FindNext(m, pattern, s, p) ==
    IF m.ok THEN <<m>> \o FindFrom(pattern, s, IF m.end > p THEN m.end ELSE p + 1)
    ELSE FindFrom(pattern, s, p + 1)

FindFrom(pattern, s, p) ==
    IF p > Len(s) + 1 THEN <<>>
    ELSE FindNext(MatchAt(pattern, s, p), pattern, s, p)

finditer(pattern, s) == FindFrom(pattern, s, 1)

RECURSIVE Flatten(_)
Flatten(qs) == IF qs = <<>> THEN <<>> ELSE Head(qs) \o Flatten(Tail(qs))

(***************************************************************************)
(* The alias table, in the order of the literal (dicts keep insertion      *)
(* order); the engine and the backend carry the same table.                *)
(***************************************************************************)
BOOK_NAMES == <<
    <<"genesis", "Genesis">>, <<"gen", "Genesis">>, <<"gn", "Genesis">>,
    <<"exodus", "Exodus">>, <<"exod", "Exodus">>, <<"ex", "Exodus">>,
    <<"leviticus", "Leviticus">>, <<"lev", "Leviticus">>, <<"lv", "Leviticus">>,
    <<"numbers", "Numbers">>, <<"num", "Numbers">>, <<"nm", "Numbers">>,
    <<"deuteronomy", "Deuteronomy">>, <<"deut", "Deuteronomy">>, <<"dt", "Deuteronomy">>,
    <<"joshua", "Joshua">>, <<"josh", "Joshua">>, <<"jos", "Joshua">>,
    <<"judges", "Judges">>, <<"judg", "Judges">>, <<"jdg", "Judges">>,
    <<"ruth", "Ruth">>, <<"rth", "Ruth">>, <<"1 samuel", "1 Samuel">>,
    <<"1samuel", "1 Samuel">>, <<"1sam", "1 Samuel">>, <<"1sm", "1 Samuel">>,
    <<"2 samuel", "2 Samuel">>, <<"2samuel", "2 Samuel">>, <<"2sam", "2 Samuel">>,
    <<"2sm", "2 Samuel">>, <<"1 kings", "1 Kings">>, <<"1kings", "1 Kings">>,
    <<"1kgs", "1 Kings">>, <<"1kg", "1 Kings">>, <<"2 kings", "2 Kings">>,
    <<"2kings", "2 Kings">>, <<"2kgs", "2 Kings">>, <<"2kg", "2 Kings">>,
    <<"1 chronicles", "1 Chronicles">>, <<"1chronicles", "1 Chronicles">>, <<"1chr", "1 Chronicles">>,
    <<"2 chronicles", "2 Chronicles">>, <<"2chronicles", "2 Chronicles">>, <<"2chr", "2 Chronicles">>,
    <<"ezra", "Ezra">>, <<"ezr", "Ezra">>, <<"nehemiah", "Nehemiah">>,
    <<"neh", "Nehemiah">>, <<"esther", "Esther">>, <<"esth", "Esther">>,
    <<"est", "Esther">>, <<"job", "Job">>, <<"jb", "Job">>,
    <<"psalms", "Psalms">>, <<"psalm", "Psalms">>, <<"ps", "Psalms">>,
    <<"psa", "Psalms">>, <<"proverbs", "Proverbs">>, <<"prov", "Proverbs">>,
    <<"prv", "Proverbs">>, <<"ecclesiastes", "Ecclesiastes">>, <<"eccl", "Ecclesiastes">>,
    <<"ecc", "Ecclesiastes">>, <<"song of solomon", "Song of Solomon">>, <<"song", "Song of Solomon">>,
    <<"sos", "Song of Solomon">>, <<"isaiah", "Isaiah">>, <<"isa", "Isaiah">>,
    <<"is", "Isaiah">>, <<"jeremiah", "Jeremiah">>, <<"jer", "Jeremiah">>,
    <<"lamentations", "Lamentations">>, <<"lam", "Lamentations">>, <<"ezekiel", "Ezekiel">>,
    <<"ezek", "Ezekiel">>, <<"ezk", "Ezekiel">>, <<"daniel", "Daniel">>,
    <<"dan", "Daniel">>, <<"dn", "Daniel">>, <<"hosea", "Hosea">>,
    <<"hos", "Hosea">>, <<"joel", "Joel">>, <<"jl", "Joel">>,
    <<"amos", "Amos">>, <<"am", "Amos">>, <<"obadiah", "Obadiah">>,
    <<"obad", "Obadiah">>, <<"ob", "Obadiah">>, <<"jonah", "Jonah">>,
    <<"jon", "Jonah">>, <<"micah", "Micah">>, <<"mic", "Micah">>,
    <<"nahum", "Nahum">>, <<"nah", "Nahum">>, <<"na", "Nahum">>,
    <<"habakkuk", "Habakkuk">>, <<"hab", "Habakkuk">>, <<"zephaniah", "Zephaniah">>,
    <<"zeph", "Zephaniah">>, <<"zep", "Zephaniah">>, <<"haggai", "Haggai">>,
    <<"hag", "Haggai">>, <<"zechariah", "Zechariah">>, <<"zech", "Zechariah">>,
    <<"zec", "Zechariah">>, <<"malachi", "Malachi">>, <<"mal", "Malachi">>,
    <<"matthew", "Matthew">>, <<"matt", "Matthew">>, <<"mt", "Matthew">>,
    <<"mark", "Mark">>, <<"mrk", "Mark">>, <<"mk", "Mark">>,
    <<"luke", "Luke">>, <<"lk", "Luke">>, <<"john", "John">>,
    <<"jn", "John">>, <<"acts", "Acts">>, <<"act", "Acts">>,
    <<"romans", "Romans">>, <<"rom", "Romans">>, <<"rm", "Romans">>,
    <<"1 corinthians", "1 Corinthians">>, <<"1corinthians", "1 Corinthians">>, <<"1cor", "1 Corinthians">>,
    <<"2 corinthians", "2 Corinthians">>, <<"2corinthians", "2 Corinthians">>, <<"2cor", "2 Corinthians">>,
    <<"galatians", "Galatians">>, <<"gal", "Galatians">>, <<"ephesians", "Ephesians">>,
    <<"eph", "Ephesians">>, <<"philippians", "Philippians">>, <<"phil", "Philippians">>,
    <<"php", "Philippians">>, <<"colossians", "Colossians">>, <<"col", "Colossians">>,
    <<"1 thessalonians", "1 Thessalonians">>, <<"1thessalonians", "1 Thessalonians">>, <<"1thess", "1 Thessalonians">>,
    <<"2 thessalonians", "2 Thessalonians">>, <<"2thessalonians", "2 Thessalonians">>, <<"2thess", "2 Thessalonians">>,
    <<"1 timothy", "1 Timothy">>, <<"1timothy", "1 Timothy">>, <<"1tim", "1 Timothy">>,
    <<"2 timothy", "2 Timothy">>, <<"2timothy", "2 Timothy">>, <<"2tim", "2 Timothy">>,
    <<"titus", "Titus">>, <<"tit", "Titus">>, <<"philemon", "Philemon">>,
    <<"philem", "Philemon">>, <<"phm", "Philemon">>, <<"hebrews", "Hebrews">>,
    <<"heb", "Hebrews">>, <<"james", "James">>, <<"jas", "James">>,
    <<"jm", "James">>, <<"1 peter", "1 Peter">>, <<"1peter", "1 Peter">>,
    <<"1pet", "1 Peter">>, <<"2 peter", "2 Peter">>, <<"2peter", "2 Peter">>,
    <<"2pet", "2 Peter">>, <<"1 john", "1 John">>, <<"1john", "1 John">>,
    <<"1jn", "1 John">>, <<"2 john", "2 John">>, <<"2john", "2 John">>,
    <<"2jn", "2 John">>, <<"3 john", "3 John">>, <<"3john", "3 John">>,
    <<"3jn", "3 John">>, <<"jude", "Jude">>, <<"jud", "Jude">>,
    <<"revelation", "Revelation">>, <<"rev", "Revelation">>, <<"rv", "Revelation">>
>>

\* dict.get(key): the value of the key, or None
Get(table, key) ==
    IF \E i \in 1..Len(table) : table[i][1] = key
    THEN table[CHOOSE i \in 1..Len(table) : table[i][1] = key][2]
    ELSE None

\* the value of the first entry, in the order of the table, among those at
\* the indices S; None when a `for key, value in ...items()` loop finds none
FirstOf(table, S) ==
    IF S = {} THEN None
    ELSE table[CHOOSE i \in S : \A j \in S : i <= j][2]

\* the scan of the table alone
LookupBookPrefixOnly(table, book_lower) ==
    FirstOf(table, {i \in 1..Len(table) :
                       \/ startswith(book_lower, table[i][1])
                       \/ startswith(table[i][1], book_lower)})

\* normalize_book after book_text.lower().strip()
LookupBook(table, book_lower) ==
    IF Get(table, book_lower) # None THEN Get(table, book_lower)
    ELSE FirstOf(table, {i \in 1..Len(table) :
                            \/ startswith(book_lower, table[i][1])
                            \/ startswith(table[i][1], book_lower)})

\* BibleEngine.normalize_book, and normalize_book inside the backend's
\* detect_bible_references: the same code
normalize_book(book_text) == LookupBook(BOOK_NAMES, strip(lower(book_text)))

(***************************************************************************)
(* BibleEngine.detect_bible_references                                     *)
(***************************************************************************)
\* \b([1-3]?\s*\w+)\s+
BookAndSpace ==
    <<Wb,
      Grp(1, Cat(<<Opt(Set({"1", "2", "3"})), Star(Set(Space)), Plus(Set(Word))>>)),
      Plus(Set(Space))>>

\* r'\b([1-3]?\s*\w+)\s+(\d+):(\d+)(?:-(\d+))?\b'
pattern1 ==
    Pattern(4, BookAndSpace \o
               <<Grp(2, Plus(Set(Digit))), Lit(":"), Grp(3, Plus(Set(Digit))),
                 Opt(Cat(<<Lit("-"), Grp(4, Plus(Set(Digit)))>>)),
                 Wb>>)

\* r'\b([1-3]?\s*\w+)\s+chapter\s+(\d+)\s+verse\s+(\d+)\b'
pattern2 ==
    Pattern(3, BookAndSpace \o
               <<Lit("chapter"), Plus(Set(Space)), Grp(2, Plus(Set(Digit))),
                 Plus(Set(Space)), Lit("verse"), Plus(Set(Space)),
                 Grp(3, Plus(Set(Digit))), Wb>>)

\* r'\b(first|second|third|1st|2nd|3rd)\s+(\w+)\s+(?:chapter\s+)?(\d+)(?:\s+verse\s+(\d+))?\b'
pattern3 ==
    Pattern(4, <<Wb,
                 Grp(1, Alt(<<Lit("first"), Lit("second"), Lit("third"),
                              Lit("1st"), Lit("2nd"), Lit("3rd")>>)),
                 Plus(Set(Space)), Grp(2, Plus(Set(Word))), Plus(Set(Space)),
                 Opt(Cat(<<Lit("chapter"), Plus(Set(Space))>>)),
                 Grp(3, Plus(Set(Digit))),
                 Opt(Cat(<<Plus(Set(Space)), Lit("verse"), Plus(Set(Space)),
                            Grp(4, Plus(Set(Digit)))>>)),
                 Wb>>)

\* the patterns of the engine with their p_type, in the order of its loop
engine_patterns == <<[pattern |-> pattern1, p_type |-> "std"],
                     [pattern |-> pattern2, p_type |-> "spoken"],
                     [pattern |-> pattern3, p_type |-> "ordinal"]>>

\* ord_map.get(ord_val.lower(), ord_val)
ord_map(ord_val) ==
    CASE lower(ord_val) \in {"first", "1st"}  -> "1"
      [] lower(ord_val) \in {"second", "2nd"} -> "2"
      [] lower(ord_val) \in {"third", "3rd"}  -> "3"
      [] OTHER -> ord_val

\* the book a match names: normalize_book(book), or for an ordinal match
\* normalize_book(f"{num} {book}")
MatchedBook(p_type, g) ==
    normalize_book(IF p_type = "ordinal" THEN ord_map(g[1]) \o " " \o g[2] ELSE g[1])

\* what one match of the engine appends to `references`
EngineAppended(p_type, g, norm) ==
    IF p_type = "ordinal"
    THEN IF norm # None /\ g[4] # None
         THEN <<norm \o " " \o g[3] \o ":" \o g[4]>> ELSE <<>>
    ELSE IF norm # None
         THEN <<norm \o " " \o g[2] \o ":" \o g[3]>> ELSE <<>>

\* for match in re.finditer(...), from match number k on
RECURSIVE EngineMatches(_, _, _)
EngineMatches(ms, k, p_type) ==
    IF k > Len(ms) THEN <<>>
    ELSE EngineAppended(p_type, ms[k].groups, MatchedBook(p_type, ms[k].groups))
         \o EngineMatches(ms, k + 1, p_type)

\* for pattern, p_type in [...], from pattern number i on
RECURSIVE EnginePatterns(_, _, _)
EnginePatterns(patterns, i, text) ==
    IF i > Len(patterns) THEN <<>>
    ELSE EngineMatches(finditer(patterns[i].pattern, text), 1, patterns[i].p_type)
         \o EnginePatterns(patterns, i + 1, text)

\* `references` of BibleEngine.detect_bible_references before list(set(...))
EngineReferences(text) == EnginePatterns(engine_patterns, 1, text)

(***************************************************************************)
(* detect_bible_references of the backend                                  *)
(***************************************************************************)
\* r'\b([1-3]?\s*\w+)\s+chapter\s+(\d+)\s+verse\s+(\d+)(?:\s+(?:through|to|thru)\s+(?:verse\s+)?(\d+))?\b'
backend_pattern2 ==
    Pattern(4, BookAndSpace \o
               <<Lit("chapter"), Plus(Set(Space)), Grp(2, Plus(Set(Digit))),
                 Plus(Set(Space)), Lit("verse"), Plus(Set(Space)),
                 Grp(3, Plus(Set(Digit))),
                 Opt(Cat(<<Plus(Set(Space)),
                           Alt(<<Lit("through"), Lit("to"), Lit("thru")>>),
                           Plus(Set(Space)),
                           Opt(Cat(<<Lit("verse"), Plus(Set(Space))>>)),
                           Grp(4, Plus(Set(Digit)))>>)),
                 Wb>>)

\* r'\b([1-3]?\s*\w+)\s+chapter\s+(\d+)\b(?!\s+verse)'
pattern4 ==
    Pattern(2, BookAndSpace \o
               <<Lit("chapter"), Plus(Set(Space)), Grp(2, Plus(Set(Digit))), Wb,
                 NotAhead(Cat(<<Plus(Set(Space)), Lit("verse")>>))>>)

\* r'\b(first|second|third|1st|2nd|3rd)\s+(\w+)\s+(?:chapter\s+)?(\d+)(?:\s+verse\s+(\d+)(?:\s+(?:through|to)\s+(\d+))?)?\b'
pattern6 ==
    Pattern(5, <<Wb,
                 Grp(1, Alt(<<Lit("first"), Lit("second"), Lit("third"),
                              Lit("1st"), Lit("2nd"), Lit("3rd")>>)),
                 Plus(Set(Space)), Grp(2, Plus(Set(Word))), Plus(Set(Space)),
                 Opt(Cat(<<Lit("chapter"), Plus(Set(Space))>>)),
                 Grp(3, Plus(Set(Digit))),
                 Opt(Cat(<<Plus(Set(Space)), Lit("verse"), Plus(Set(Space)),
                           Grp(4, Plus(Set(Digit))),
                           Opt(Cat(<<Plus(Set(Space)),
                                     Alt(<<Lit("through"), Lit("to")>>),
                                     Plus(Set(Space)),
                                     Grp(5, Plus(Set(Digit)))>>))>>)),
                 Wb>>)

\* all_patterns, in the order of the loop
all_patterns == <<[pattern |-> pattern1, p_type |-> "standard"],
                  [pattern |-> backend_pattern2, p_type |-> "spoken"],
                  [pattern |-> pattern4, p_type |-> "spoken_chapter"],
                  [pattern |-> pattern6, p_type |-> "ordinal"]>>

\* the end verse of a range is dropped
FormatReferenceNoRange(normalized, chapter, verse, end_verse) ==
    IF verse = None THEN <<normalized \o " " \o chapter>>
    ELSE <<normalized \o " " \o chapter \o ":" \o verse>>

\* f"{normalized} {chapter}:{verse}-{end_verse}", the parts that are present
FormatReference(normalized, chapter, verse, end_verse) ==
    IF verse = None THEN <<normalized \o " " \o chapter>>
    ELSE IF end_verse = None THEN <<normalized \o " " \o chapter \o ":" \o verse>>
    ELSE <<normalized \o " " \o chapter \o ":" \o verse \o "-" \o end_verse>>

\* what one match of the backend appends to `references`
BackendAppended(p_type, g, normalized) ==
    IF normalized = None THEN <<>>
    ELSE CASE p_type \in {"standard", "spoken"} ->
                  FormatReference(normalized, g[2], g[3], g[4])
           [] p_type = "spoken_chapter" ->
                  FormatReference(normalized, g[2], None, None)
           [] p_type = "ordinal" ->
                  FormatReference(normalized, g[3], g[4], g[5])

\* for match in matches, from match number k on
RECURSIVE BackendMatches(_, _, _)
BackendMatches(ms, k, p_type) ==
    IF k > Len(ms) THEN <<>>
    ELSE BackendAppended(p_type, ms[k].groups, MatchedBook(p_type, ms[k].groups))
         \o BackendMatches(ms, k + 1, p_type)

\* for pattern, pattern_type in all_patterns, from pattern number i on
RECURSIVE BackendPatterns(_, _, _)
BackendPatterns(patterns, i, text) ==
    IF i > Len(patterns) THEN <<>>
    ELSE BackendMatches(finditer(patterns[i].pattern, text), 1, patterns[i].p_type)
         \o BackendPatterns(patterns, i + 1, text)

\* `references` of the backend's detect_bible_references before the
\* duplicates are removed
BackendReferences(text) == BackendPatterns(all_patterns, 1, text)

\* the loop over `references` with `seen` and `unique_refs`, from number k on
RECURSIVE UniqueRefs(_, _, _)
UniqueRefs(refs, k, seen) ==
    IF k > Len(refs) THEN <<>>
    ELSE IF refs[k] \in seen THEN UniqueRefs(refs, k + 1, seen)
    ELSE <<refs[k]>> \o UniqueRefs(refs, k + 1, seen \cup {refs[k]})

\* detect_bible_references(text) of the backend
detect_bible_references(text) == UniqueRefs(BackendReferences(text), 1, {})

(***************************************************************************)
(* The verse store: the rows of table `verses` in id order.  The backend   *)
(* stores the reference string with each row; the engine formats it.       *)
(***************************************************************************)
VerseRow(book, chapter, verse, text) ==
    [book |-> book, chapter |-> chapter, verse |-> verse, text |-> text,
     reference |-> book \o " " \o ToString(chapter) \o ":" \o ToString(verse)]

verses == <<
    VerseRow("John", 3, 16, "For God so loved the world"),
    VerseRow("John", 3, 17, "For God sent not his Son to condemn"),
    VerseRow("Romans", 8, 28, "All things work together for good"),
    VerseRow("1 John", 1, 9, "If we confess our sins") >>

NoneInt == -1

\* r'^(.+?)\s+(\d+):(\d+)$'
search_verse_pattern ==
    Pattern(3, <<Bol, Grp(1, PlusLazy(AnyChar)), Plus(Set(Space)),
                 Grp(2, Plus(Set(Digit))), Lit(":"), Grp(3, Plus(Set(Digit))),
                 Eol>>)

\* BibleEngine.search_verse: the match record, or NoResult for None
NoResult == [type |-> "null"]

\* search_verse once the book is normalized: the SELECT and the record
SearchRow(normalized_book, chapter, verse) ==
    LET rows == SelectSeq(verses, LAMBDA r : /\ r.book = normalized_book
                                             /\ r.chapter = DigitsValue(chapter)
                                             /\ r.verse = DigitsValue(verse))
    IN  IF normalized_book = None THEN NoResult
        ELSE IF rows = <<>> THEN NoResult
        ELSE [reference |-> normalized_book \o " " \o chapter \o ":" \o verse,
              text |-> rows[1].text, type |-> "explicit"]

\* search_verse once the pattern is matched
SearchMatched(m) ==
    IF ~m.ok THEN NoResult
    ELSE SearchRow(normalize_book(m.groups[1]), m.groups[2], m.groups[3])

search_verse(reference) ==
    SearchMatched(re_match(search_verse_pattern, strip(reference)))

\* r'^(.+?)\s+(\d+)(?::(\d+))?(?:-(\d+))?$'
parse_reference_pattern ==
    Pattern(4, <<Bol, Grp(1, PlusLazy(AnyChar)), Plus(Set(Space)),
                 Grp(2, Plus(Set(Digit))),
                 Opt(Cat(<<Lit(":"), Grp(3, Plus(Set(Digit)))>>)),
                 Opt(Cat(<<Lit("-"), Grp(4, Plus(Set(Digit)))>>)),
                 Eol>>)

\* BOOK_NAMES.get(book_input), then the first key that starts with book_input
FindBook(table, book_input) ==
    IF Get(table, book_input) # None THEN Get(table, book_input)
    ELSE FirstOf(table, {i \in 1..Len(table) : startswith(table[i][1], book_input)})

\* parse_reference once the book is looked up
ParsedBook(book_name, g) ==
    LET chapter     == DigitsValue(g[2])
        start_verse == IF g[3] # None THEN DigitsValue(g[3]) ELSE NoneInt
        end_verse   == IF g[4] # None THEN DigitsValue(g[4]) ELSE start_verse
    IN  IF book_name = None THEN [raised |-> "Book not found"]
        ELSE [raised |-> None, book |-> book_name, chapter |-> chapter,
              start_verse |-> start_verse, end_verse |-> end_verse]

\* parse_reference once the pattern is matched
ParsedMatch(m) ==
    IF ~m.ok THEN [raised |-> "Invalid reference format"]
    ELSE ParsedBook(FindBook(BOOK_NAMES, lower(strip(m.groups[1]))), m.groups)

\* parse_reference: the record, or the ValueError it raises
parse_reference(reference) ==
    ParsedMatch(re_match(parse_reference_pattern, strip(reference)))

\* get_verses_from_db: the rows, or <<>> where it raises "No verses found"
\* (`end_verse or start_verse`: 0 counts as absent)
get_verses_from_db(parsed_ref) ==
    LET last == IF parsed_ref.end_verse \in {NoneInt, 0}
                THEN parsed_ref.start_verse ELSE parsed_ref.end_verse
    IN  IF parsed_ref.start_verse = NoneInt
        THEN SelectSeq(verses, LAMBDA r : /\ r.book = parsed_ref.book
                                          /\ r.chapter = parsed_ref.chapter)
        ELSE SelectSeq(verses, LAMBDA r : /\ r.book = parsed_ref.book
                                          /\ r.chapter = parsed_ref.chapter
                                          /\ r.verse >= parsed_ref.start_verse
                                          /\ r.verse <= last)

(***************************************************************************)
(* The pipe engine: BibleEngine of engine.py                               *)
(***************************************************************************)
MaxBlocks == 10          \* audio the client sends in one run, in blocks

sample_rate == 16000
BlockSamples == sample_rate \div 2    \* samples in one block: half a second
TopK == 3                \* semantic_search(top_k=3)
Threshold == 45          \* semantic_search(threshold=0.45), in hundredths
MinTextLen == 10         \* len(full_text) > 10

\* the code's window (sample_rate * 3) and the 2 s window of the scenario
WindowSizes == {sample_rate * 3, sample_rate * 2}

\* what whisper.transcribe can return for a window
Transcripts == {"", "Amen", "Turn to John 3:16",
                "john chapter 3 verse 17 and John 3:16"}

\* similarities of the encoded text to the rows of the index, in hundredths
SimilarityVectors == { <<90, 44, 10, 9>>, <<8, 45, 45, 10>>, <<10, 20, 30, 40>> }

\* the lines the client can write to the engine's stdin
AudioLines == {"AUDIO:16000\n", "AUDIO:32000\n", "AUDIO:64000\n",
               "AUDIO:80000\n", "AUDIO:16001\n",
               "AUDIO:abc\n", "AUDIO:\n", "AUDIO:12.5\n"}

\* json.loads on the other lines the client can write
JsonLines == <<
    [line |-> "{\"action\":\"search\",\"reference\":\"John 3:16\"}\n",
     kind |-> "object", action |-> "search", reference |-> "John 3:16"],
    [line |-> "{\"action\":\"search\",\"reference\":\"Mark 1:1\"}\n",
     kind |-> "object", action |-> "search", reference |-> "Mark 1:1"],
    [line |-> "{\"action\":\"search\",\"reference\":null}\n",
     kind |-> "object", action |-> "search", reference |-> None],
    [line |-> "{\"action\":\"search\"}\n",
     kind |-> "object", action |-> "search", reference |-> None],
    [line |-> "{\"action\":\"ping\"}\n",
     kind |-> "object", action |-> "ping", reference |-> None],
    [line |-> "[1, 2]\n",
     kind |-> "array", action |-> None, reference |-> None],
    [line |-> "{\"action\":\n",
     kind |-> "invalid", action |-> None, reference |-> None],
    [line |-> "audio:16000\n",
     kind |-> "invalid", action |-> None, reference |-> None],
    [line |-> "\n",
     kind |-> "invalid", action |-> None, reference |-> None] >>

CommandLines == {JsonLines[i].line : i \in 1..Len(JsonLines)}

json_loads(line) == JsonLines[CHOOSE i \in 1..Len(JsonLines) : JsonLines[i].line = line]

\* line.split(":")[1]
SplitField1(line) ==
    LET c1 == CHOOSE i \in 1..Len(line) :
                  CharAt(line, i) = ":" /\ \A j \in 1..(i - 1) : CharAt(line, j) # ":"
        rest == SubSeq(line, c1 + 1, Len(line))
        ends == {i \in 1..Len(rest) : CharAt(rest, i) = ":"}
    IN  IF ends = {} THEN rest
        ELSE SubSeq(rest, 1, (CHOOSE i \in ends : \A j \in ends : i <= j) - 1)

\* int(s): surrounding whitespace and a sign are accepted; NoneInt - 1 stands
\* for the ValueError
IntError == NoneInt - 1
int(s) ==
    LET t == strip(s)
        signed == t # "" /\ Head(t) \in {"+", "-"}
        body == IF signed THEN Tail(t) ELSE t
    IN  IF ~AllDigits(body) THEN IntError
        ELSE IF signed /\ Head(t) = "-" THEN 0 - DigitsValue(body)
        ELSE DigitsValue(body)

\* sys.stdin.readline() decodes the stream a chunk at a time, and
\* sys.stdin.buffer.read(num_bytes) reads after what it took: the bytes that
\* follow the AUDIO: line and are already in the text layer when the line is
\* returned, none when the line came alone, the rest of the chunk at most
TextChunkSize == 8192
ReadAhead(line, num_bytes) ==
    {0, IF num_bytes < TextChunkSize - Len(line) THEN num_bytes
        ELSE TextChunkSize - Len(line)}

\* the audio buffer is the slice [lo, hi) of the samples received so far
EmptyBuffer == [lo |-> 0, hi |-> 0]
BufLen(b) == b.hi - b.lo
\* np.append(self.audio_buffer, audio_chunk)
np_append(b, n) == [b EXCEPT !.hi = @ + n]
\* self.audio_buffer[-overlap:]
LastSamples(b, overlap) ==
    IF overlap = 0 \/ BufLen(b) <= overlap THEN b
    ELSE [b EXCEPT !.lo = b.hi - overlap]

\* the orders np.argsort may return: ascending, ties in any order
Argsorts(sims) ==
    {o \in [1..Len(sims) -> 1..Len(sims)] :
        /\ \A i, j \in 1..Len(sims) : i # j => o[i] # o[j]
        /\ \A i, j \in 1..Len(sims) : i < j => sims[o[i]] <= sims[o[j]]}

Reverse(q) == [i \in 1..Len(q) |-> q[Len(q) + 1 - i]]
FirstN(q, n) == SubSeq(q, 1, IF n < Len(q) THEN n ELSE Len(q))

\* the top_k smallest similarities, ascending
semantic_search_ascending(embeddings, sims, order, top_k, threshold) ==
    LET top_indices == FirstN(order, top_k)
    IN  IF embeddings = NoneInt THEN <<>>
        ELSE Flatten([k \in 1..Len(top_indices) |->
                        IF sims[top_indices[k]] >= threshold
                        THEN <<[reference |-> verses[top_indices[k]].book \o " "
                                    \o ToString(verses[top_indices[k]].chapter) \o ":"
                                    \o ToString(verses[top_indices[k]].verse),
                                text |-> verses[top_indices[k]].text,
                                score |-> sims[top_indices[k]],
                                type |-> "semantic"]>>
                        ELSE <<>>])

\* BibleEngine.semantic_search, given the similarities and the argsort order
semantic_search(embeddings, sims, order, top_k, threshold) ==
    LET top_indices == FirstN(Reverse(order), top_k)
        Hit(idx) == [reference |-> verses[idx].book \o " "
                                   \o ToString(verses[idx].chapter) \o ":"
                                   \o ToString(verses[idx].verse),
                     text |-> verses[idx].text,
                     score |-> sims[idx],
                     type |-> "semantic"]
    IN  IF embeddings = NoneInt THEN <<>>
        ELSE Flatten([k \in 1..Len(top_indices) |->
                        IF sims[top_indices[k]] >= threshold
                        THEN <<Hit(top_indices[k])>> ELSE <<>>])

\* the sequences that list the elements of a sequence once each, in any order
\* (list(set(references)) iterates in hash order)
SetOrders(q) ==
    LET S == {q[i] : i \in 1..Len(q)}
    IN  {o \in [1..Cardinality(S) -> S] : \A e \in S : \E i \in DOMAIN o : o[i] = e}

\* the texts detect_bible_references is called with on its own
DetectTexts == {"Turn with me to John chapter 3 verse 16",
                "Let's look at Romans 8:28-30",
                "First John chapter one verse nine",
                "First John chapter 1 verse 9",
                "John 3:16 and John 3:16",
                "john chapter 3 verse 17 and John 3:16",
                "Second Corinthians chapter 5",
                "First John chapter 3 verse 16",
                "First John 3:16",
                "nothing to see"}

\* Tables of the pure functions on the inputs of the run, evaluated once
EngineReferenceTable == [t \in Transcripts \cup DetectTexts |-> EngineReferences(t)]

\* BibleEngine.detect_bible_references: the lists it may return
detect_bible_references_engine(text) == SetOrders(EngineReferenceTable[text])

\* the references search_verse is called with: those detected in a
\* transcript and those of the search commands
SearchedReferences ==
    UNION {{q[i] : i \in 1..Len(q)} : q \in {EngineReferenceTable[t] : t \in Transcripts}}
    \cup ({JsonLines[i].reference : i \in 1..Len(JsonLines)} \ {None})

SearchVerseTable == [r \in SearchedReferences |-> search_verse(r)]

\* what the environment decides during one trigger
NoOutcome == [fail |-> "none", text |-> "", refs |-> <<>>,
              sims |-> <<>>, order |-> <<>>]

\* every transcript is searched
AlwaysLong(full_text) == TRUE

IsLong(full_text) == full_text # "" /\ Len(full_text) > MinTextLen

\* after a transcript long enough to be searched, with the lists
\* detect_bible_references may return for it: embedder.encode raises (it runs
\* only when the index is loaded), or the similarities and their argsort
LongOutcomes(embeddings, t, lists) ==
    {[NoOutcome EXCEPT !.text = t, !.refs = r, !.fail = "encode"] :
        r \in IF embeddings = NoneInt THEN {} ELSE lists}
    \cup
    UNION {{[NoOutcome EXCEPT !.text = t, !.refs = r, !.sims = sv, !.order = o] :
               r \in lists, o \in Argsorts(sv)}
           : sv \in SimilarityVectors}

\* whisper.transcribe raises, or returns a short text, or a long one
Outcomes(embeddings) ==
    {[NoOutcome EXCEPT !.fail = "transcribe"]}
    \cup {[NoOutcome EXCEPT !.text = t] : t \in {t \in Transcripts : ~IsLong(t)}}
    \cup UNION {LongOutcomes(embeddings, t, detect_bible_references_engine(t))
                : t \in {t \in Transcripts : IsLong(t)}}

OutcomesTable == [e \in {NoneInt, Len(verses)} |-> Outcomes(e)]

\* BibleEngine.process_audio(pcm_bytes) on a buffer: the buffer it leaves, what
\* it prints, and the exception that leaves it (None when it returns)
process_audio(buffer, window, embeddings, num_bytes, o) ==
    LET appended  == np_append(buffer, num_bytes \div 2)
        triggered == BufLen(appended) >= window
        explicit_matches ==
            SelectSeq([i \in 1..Len(o.refs) |-> SearchVerseTable[o.refs[i]]],
                      LAMBDA m : m # NoResult)
        semantic_results == semantic_search(embeddings, o.sims, o.order, TopK, Threshold)
        message == [type |-> "transcription", text |-> o.text,
                    matches |-> explicit_matches,
                    semantic_matches |-> semantic_results]
        overlap == sample_rate
        transcribed == triggered /\ num_bytes % 2 = 0 /\ o.fail # "transcribe"
        Result(b, raised, printed) ==
            [buffer |-> b, raised |-> raised, printed |-> printed,
             triggered |-> triggered /\ num_bytes % 2 = 0,
             window |-> IF triggered /\ num_bytes % 2 = 0 THEN appended ELSE EmptyBuffer,
             text |-> IF transcribed THEN o.text ELSE "",
             searched |-> transcribed /\ IsLong(o.text)]
    IN  IF num_bytes % 2 # 0
        THEN Result(buffer, "buffer size must be a multiple of element size", <<>>)
        ELSE IF ~triggered THEN Result(appended, None, <<>>)
        ELSE IF o.fail = "transcribe" THEN Result(appended, "transcribe failed", <<>>)
        ELSE IF ~IsLong(o.text) THEN Result(LastSamples(appended, overlap), None, <<>>)
        ELSE IF o.fail = "encode" /\ embeddings # NoneInt
             THEN Result(appended, "encode failed", <<>>)
        ELSE Result(LastSamples(appended, overlap), None, <<message>>)

VARIABLES
    window_size,        \* self.window_size
    verse_embeddings,   \* rows of self.verse_embeddings, NoneInt for None
    audio_buffer,       \* self.audio_buffer
    stdout,             \* what the latest iteration printed and flushed on
                        \* the result stream
    stderr,             \* what the latest iteration printed on stderr
    listening,          \* the loop of listen() has not reached its break
    triggers,           \* calls of whisper.transcribe so far
    last_window,        \* the buffer handed to the latest whisper.transcribe
    call                \* the latest iteration of the loop

engineVars == <<window_size, verse_embeddings, audio_buffer, stdout, stderr,
                listening, triggers, last_window, call>>

NoCall == [op |-> "none", kind |-> "none", raised |-> None, triggered |-> FALSE,
           window |-> EmptyBuffer, before |-> EmptyBuffer,
           line |-> "", ahead |-> 0, text |-> "", searched |-> FALSE]

EngineInit ==
    /\ window_size \in WindowSizes
    /\ verse_embeddings \in {NoneInt, Len(verses)}
    /\ audio_buffer = EmptyBuffer
    /\ stdout = <<>>
    /\ stderr = <<>>
    /\ listening = TRUE
    /\ triggers = 0
    /\ last_window = EmptyBuffer
    /\ call = NoCall

\* as ListenBadAudio, without the try/except around int(): the loop ends
ListenBadAudioUncaught ==
    /\ listening
    /\ \E line \in AudioLines :
        /\ startswith(line, "AUDIO:")
        /\ int(SplitField1(line)) = IntError
        /\ stderr' = <<[type |-> "error", message |-> "invalid literal for int()"]>>
        /\ call' = [NoCall EXCEPT !.op = "bad_audio", !.kind = "not_integer",
                                  !.raised = "invalid literal for int()",
                                  !.before = audio_buffer]
    /\ stdout' = <<>>
    /\ listening' = FALSE
    /\ UNCHANGED <<window_size, verse_embeddings, audio_buffer,
                   triggers, last_window>>

\* listen(): an AUDIO: line whose length is not an integer
ListenBadAudio ==
    /\ listening
    /\ \E line \in AudioLines :
        /\ startswith(line, "AUDIO:")
        /\ int(SplitField1(line)) = IntError
        /\ stderr' = <<[type |-> "error", message |-> "invalid literal for int()"]>>
        /\ call' = [NoCall EXCEPT !.op = "bad_audio", !.kind = "not_integer",
                                  !.raised = "invalid literal for int()",
                                  !.before = audio_buffer]
    /\ stdout' = <<>>
    /\ UNCHANGED <<window_size, verse_embeddings, audio_buffer,
                   listening, triggers, last_window>>

\* listen(): an AUDIO:<N> line, the N bytes after it, and process_audio on them
ListenAudio ==
    /\ listening
    /\ \E line \in AudioLines : \E num_bytes \in {int(SplitField1(line))} :
        /\ startswith(line, "AUDIO:")
        /\ num_bytes >= 0
        /\ audio_buffer.hi + num_bytes \div 2 <= MaxBlocks * BlockSamples
        /\ LET fires == /\ num_bytes % 2 = 0
                        /\ BufLen(np_append(audio_buffer, num_bytes \div 2)) >= window_size
           IN  \E o \in IF fires THEN OutcomesTable[verse_embeddings] ELSE {NoOutcome} :
                 \E r \in {process_audio(audio_buffer, window_size,
                                         verse_embeddings, num_bytes, o)} :
                     /\ audio_buffer' = r.buffer
                     /\ stdout' = r.printed
                     /\ stderr' = IF r.raised = None THEN <<>>
                                  ELSE <<[type |-> "error", message |-> r.raised]>>
                     /\ triggers' = IF r.triggered THEN triggers + 1 ELSE triggers
                     /\ last_window' = IF r.triggered THEN r.window ELSE last_window
                     /\ \E ahead \in ReadAhead(line, num_bytes) :
                          call' = [NoCall EXCEPT !.op = "audio", !.kind = "pcm",
                                                 !.raised = r.raised,
                                                 !.triggered = r.triggered,
                                                 !.window = r.window,
                                                 !.before = audio_buffer,
                                                 !.line = line, !.ahead = ahead,
                                                 !.text = r.text,
                                                 !.searched = r.searched]
    /\ UNCHANGED <<window_size, verse_embeddings, listening>>

\* listen(): any other line is a JSON command
ListenCommand ==
    /\ listening
    /\ \E line \in CommandLines : \E cmd \in {json_loads(line)} :
        /\ ~startswith(line, "AUDIO:")
        /\ LET answered == /\ cmd.kind = "object"
                           /\ cmd.action = "search"
                           /\ cmd.reference # None
           IN  /\ stdout' = IF answered
                            THEN <<[type |-> "search_result",
                                    data |-> SearchVerseTable[cmd.reference]]>>
                            ELSE <<>>
               /\ call' = [NoCall EXCEPT !.op = "command", !.kind = cmd.kind,
                                         !.line = line,
                                         !.raised = IF answered \/ (cmd.kind = "object" /\ cmd.action # "search")
                                                    THEN None ELSE "swallowed",
                                         !.before = audio_buffer]
    /\ stderr' = <<>>
    /\ UNCHANGED <<window_size, verse_embeddings, audio_buffer,
                   listening, triggers, last_window>>

\* listen(): readline() returns "" at end of input and the loop breaks
ListenEOF ==
    /\ listening
    /\ listening' = FALSE
    /\ call' = [NoCall EXCEPT !.op = "eof", !.before = audio_buffer]
    /\ stdout' = <<>>
    /\ stderr' = <<>>
    /\ UNCHANGED <<window_size, verse_embeddings, audio_buffer,
                   triggers, last_window>>

(***************************************************************************)
(* The backend: search_for_verses of main.py, one loop iteration a step    *)
(***************************************************************************)
MaxRefs == 2             \* explicit references in one call
MaxParaphrases == 2      \* paraphrases in one call

NResults == 3            \* bible_collection.query(n_results=3)
MinSimilarity == 50      \* similarity > 0.5, in hundredths

\* reference strings a caller can pass: resolvable ones, one with no verse in
\* the store, one whose book is unknown, one that is no reference at all
RefInputs == {"John 3:16", "john 3:16-17", "Romans 8", "1 John 1:9",
              "Mark 1:1", "Hezekiah 1:1", "John"}

ParaphraseInputs == <<"God loved the world so much", "all things work for good",
                      "confess and be forgiven", "the light of the world">>

\* what bible_collection.query can return for a paraphrase: at most n_results
\* rows of the index, nearest first, as <<row, similarity>>
QueryResults == { <<>>,
                  << <<1, 90>>, <<2, 60>>, <<3, 50>> >>,
                  << <<3, 70>>, <<1, 51>>, <<4, 40>> >>,
                  << <<4, 55>>, <<2, 55>> >> }

ParseTable == [r \in RefInputs |-> parse_reference(r)]

\* the rows get_verses_from_db returns for a parsed reference, <<>> where
\* parse_reference or get_verses_from_db raises
RowsOf(parsed) == IF parsed.raised # None THEN <<>> ELSE get_verses_from_db(parsed)

RowsTable == [r \in RefInputs |-> RowsOf(ParseTable[r])]

ExplicitEntry(row) ==
    [reference |-> row.reference, text |-> row.text, book |-> row.book,
     chapter |-> row.chapter, verse |-> row.verse, score |-> NoneInt]

SemanticEntry(hit) ==
    [reference |-> verses[hit[1]].reference, text |-> verses[hit[1]].text,
     book |-> verses[hit[1]].book, chapter |-> verses[hit[1]].chapter,
     verse |-> verses[hit[1]].verse, score |-> hit[2]]

\* as AppendUnseen, without the test `reference not in seen_references`
RECURSIVE AppendEvery(_, _, _)
AppendEvery(acc, xs, keep) ==
    IF xs = <<>> THEN acc
    ELSE LET x == Head(xs)
         IN  AppendEvery(IF keep[Len(keep) + 1 - Len(xs)]
                         THEN [all |-> Append(acc.all, x),
                               seen |-> acc.seen \cup {x.reference}]
                         ELSE acc,
                         Tail(xs), keep)

\* for x in xs: if Keep(x) and x.reference not in seen: append x, add to seen
RECURSIVE AppendUnseen(_, _, _)
AppendUnseen(acc, xs, keep) ==
    IF xs = <<>> THEN acc
    ELSE LET x == Head(xs)
             fresh == /\ keep[Len(keep) + 1 - Len(xs)]
                      /\ x.reference \notin acc.seen
         IN  AppendUnseen(IF fresh
                          THEN [all |-> Append(acc.all, x),
                                seen |-> acc.seen \cup {x.reference}]
                          ELSE acc,
                          Tail(xs), keep)

VARIABLES
    sv_pc,              \* "running", "returned", or "raised"
    references,         \* argument: the explicit references
    paraphrases,        \* argument: the paraphrases
    ref_i,              \* next reference of the first loop
    para_j,             \* next paraphrase of the second loop
    all_verses,         \* the list being built
    seen_references,    \* the set of references in it
    hits                \* what the index returned for each paraphrase so far

searchVars == <<sv_pc, references, paraphrases, ref_i, para_j,
                all_verses, seen_references, hits>>

SeqsUpTo(S, n) == UNION {[1..k -> S] : k \in 0..n}

SearchInit ==
    /\ sv_pc = "running"
    /\ references \in SeqsUpTo(RefInputs, MaxRefs)
    /\ \E n \in 0..MaxParaphrases : paraphrases = SubSeq(ParaphraseInputs, 1, n)
    /\ ref_i = 1
    /\ para_j = 1
    /\ all_verses = <<>>
    /\ seen_references = {}
    /\ hits = <<>>

\* as SearchExplicit, without the try/except around the lookup
SearchExplicitUncaught ==
    /\ sv_pc = "running" /\ ref_i <= Len(references)
    /\ LET ref    == references[ref_i]
           parsed == ParseTable[ref]
           rows   == RowsTable[ref]
           found  == [i \in 1..Len(rows) |-> ExplicitEntry(rows[i])]
           acc    == AppendUnseen([all |-> all_verses, seen |-> seen_references],
                                  found, [i \in 1..Len(found) |-> TRUE])
       IN  IF parsed.raised # None \/ rows = <<>>
           THEN /\ sv_pc' = "raised"
                /\ UNCHANGED <<all_verses, seen_references>>
           ELSE /\ all_verses' = acc.all
                /\ seen_references' = acc.seen
                /\ UNCHANGED sv_pc
    /\ ref_i' = ref_i + 1
    /\ UNCHANGED <<references, paraphrases, para_j, hits>>

\* one iteration of `for ref in references`
SearchExplicit ==
    /\ sv_pc = "running" /\ ref_i <= Len(references)
    /\ LET ref    == references[ref_i]
           parsed == ParseTable[ref]
           rows   == RowsTable[ref]
           found  == [i \in 1..Len(rows) |-> ExplicitEntry(rows[i])]
           acc    == AppendUnseen([all |-> all_verses, seen |-> seen_references],
                                  found, [i \in 1..Len(found) |-> TRUE])
       IN  \* parse_reference or get_verses_from_db raise: except: continue
           IF parsed.raised # None \/ rows = <<>>
           THEN UNCHANGED <<all_verses, seen_references>>
           ELSE /\ all_verses' = acc.all
                /\ seen_references' = acc.seen
    /\ ref_i' = ref_i + 1
    /\ UNCHANGED <<sv_pc, references, paraphrases, para_j, hits>>

\* as SearchSemantic, with the matches of a paraphrase put in front of the list
SearchSemanticInFront ==
    /\ sv_pc = "running" /\ ref_i > Len(references) /\ para_j <= Len(paraphrases)
    /\ \/ /\ hits' = Append(hits, <<>>)
          /\ UNCHANGED <<all_verses, seen_references>>
       \/ \E results \in QueryResults :
            LET found == [i \in 1..Len(results) |-> SemanticEntry(results[i])]
                acc   == AppendUnseen([all |-> <<>>, seen |-> seen_references],
                                      found,
                                      [i \in 1..Len(found) |-> results[i][2] > MinSimilarity])
            IN  /\ hits' = Append(hits, results)
                /\ all_verses' = acc.all \o all_verses
                /\ seen_references' = acc.seen
    /\ para_j' = para_j + 1
    /\ UNCHANGED <<sv_pc, references, paraphrases, ref_i>>

\* one iteration of `for paraphrase in paraphrases`
SearchSemantic ==
    /\ sv_pc = "running" /\ ref_i > Len(references) /\ para_j <= Len(paraphrases)
    /\ \/ \* encode or query raise (bible_collection is None): except: continue
          /\ hits' = Append(hits, <<>>)
          /\ UNCHANGED <<all_verses, seen_references>>
       \/ \E results \in QueryResults :
            LET found == [i \in 1..Len(results) |-> SemanticEntry(results[i])]
                acc   == AppendUnseen([all |-> all_verses, seen |-> seen_references],
                                      found,
                                      [i \in 1..Len(found) |-> results[i][2] > MinSimilarity])
            IN  /\ hits' = Append(hits, results)
                /\ all_verses' = acc.all
                /\ seen_references' = acc.seen
    /\ para_j' = para_j + 1
    /\ UNCHANGED <<sv_pc, references, paraphrases, ref_i>>

\* return all_verses
SearchReturn ==
    /\ sv_pc = "running" /\ ref_i > Len(references) /\ para_j > Len(paraphrases)
    /\ sv_pc' = "returned"
    /\ UNCHANGED <<references, paraphrases, ref_i, para_j, all_verses,
                   seen_references, hits>>

(***************************************************************************)
(* The backend: websocket_live_transcription of main.py.  A step is what   *)
(* one handler runs between two of its awaits that wait for the client.    *)
(***************************************************************************)
MaxMessages == 3         \* messages one client sends on its connection

Sessions == {"ws1", "ws2"}

VARIABLES
    WHISPER_AVAILABLE,  \* set once at import
    active_connections, \* the module-level list
    ws_pc,              \* per connection: "none", "accepted", "open",
                        \* "transcribing" (inside the inference calls), "ended"
    ws_buffer,          \* per connection: audio_buffer, the numbers of the
                        \* audio_chunk messages whose bytes it holds
    ws_recv,            \* per connection: messages received so far
    ws_sent,            \* per connection: messages sent to the client
    ws_last,            \* per connection: the latest message received
    ws_log,             \* per connection: the kinds of the messages received
    http_pc,            \* the HTTP request inside an inference call, or "idle"
    bible_collection    \* the module-level embedding index

wsVars == <<WHISPER_AVAILABLE, active_connections, ws_pc, ws_buffer,
            ws_recv, ws_sent, ws_last, ws_log, http_pc, bible_collection>>

NoMessage == [kind |-> "none", before |-> <<>>]

\* startup_event has run: initialize_embeddings has loaded the collection
WsInit ==
    /\ WHISPER_AVAILABLE \in BOOLEAN
    /\ active_connections = <<>>
    /\ ws_pc = [c \in Sessions |-> "none"]
    /\ ws_buffer = [c \in Sessions |-> <<>>]
    /\ ws_recv = [c \in Sessions |-> 0]
    /\ ws_sent = [c \in Sessions |-> <<>>]
    /\ ws_last = [c \in Sessions |-> NoMessage]
    /\ ws_log = [c \in Sessions |-> <<>>]
    /\ http_pc = "idle"
    /\ bible_collection = "startup"

\* the inference calls run on threads of their own
LoopNeverBlocked == TRUE

\* Every endpoint is an `async def` run by the one event loop of uvicorn.run,
\* and whisper_model.transcribe, the iteration of its segments and
\* embedding_model.encode are plain calls: the loop runs nothing else until
\* the coroutine that made the call reaches its next await.
LoopIdle ==
    /\ http_pc = "idle"
    /\ \A c \in Sessions : ws_pc[c] # "transcribing"

\* active_connections.remove(websocket): the first occurrence
Remove(list, c) ==
    LET i == CHOOSE i \in 1..Len(list) : list[i] = c /\ \A j \in 1..(i - 1) : list[j] # c
    IN  SubSeq(list, 1, i - 1) \o SubSeq(list, i + 1, Len(list))

\* await websocket.accept(); active_connections.append(websocket)
WsConnect(c) ==
    /\ LoopIdle
    /\ ws_pc[c] = "none"
    /\ active_connections' = Append(active_connections, c)
    /\ ws_pc' = [ws_pc EXCEPT ![c] = "accepted"]
    /\ UNCHANGED <<WHISPER_AVAILABLE, ws_buffer, ws_recv, ws_sent, ws_last, ws_log,
                   http_pc, bible_collection>>

\* the handler goes on into the receive loop after the error
WsRejectNoReturn(c) ==
    /\ LoopIdle
    /\ ws_pc[c] = "accepted" /\ ~WHISPER_AVAILABLE
    /\ ws_sent' = [ws_sent EXCEPT ![c] =
                      Append(@, [type |-> "error", about |-> 0, audio |-> <<>>])]
    /\ ws_pc' = [ws_pc EXCEPT ![c] = "open"]
    /\ UNCHANGED <<WHISPER_AVAILABLE, active_connections, ws_buffer, ws_recv, ws_last,
                   ws_log, http_pc, bible_collection>>

\* if not WHISPER_AVAILABLE: send the error, close, return
WsReject(c) ==
    /\ LoopIdle
    /\ ws_pc[c] = "accepted" /\ ~WHISPER_AVAILABLE
    /\ ws_sent' = [ws_sent EXCEPT ![c] =
                      Append(@, [type |-> "error", about |-> 0, audio |-> <<>>])]
    /\ ws_pc' = [ws_pc EXCEPT ![c] = "ended"]
    /\ UNCHANGED <<WHISPER_AVAILABLE, active_connections, ws_buffer, ws_recv, ws_last,
                   ws_log, http_pc, bible_collection>>

\* audio_buffer = io.BytesIO() and the first await of receive_json
WsOpen(c) ==
    /\ LoopIdle
    /\ ws_pc[c] = "accepted" /\ WHISPER_AVAILABLE
    /\ ws_buffer' = [ws_buffer EXCEPT ![c] = <<>>]
    /\ ws_pc' = [ws_pc EXCEPT ![c] = "open"]
    /\ UNCHANGED <<WHISPER_AVAILABLE, active_connections, ws_recv, ws_sent, ws_last,
                   ws_log, http_pc, bible_collection>>

\* data = await websocket.receive_json() returns in the handler of c
Receives(c, kind) ==
    /\ LoopIdle
    /\ ws_pc[c] = "open" /\ ws_recv[c] < MaxMessages
    /\ ws_recv' = [ws_recv EXCEPT ![c] = @ + 1]
    /\ ws_last' = [ws_last EXCEPT ![c] = [kind |-> kind, before |-> ws_buffer[c]]]
    /\ ws_log' = [ws_log EXCEPT ![c] = Append(@, kind)]

\* except Exception as e: send {"error": str(e)}, then remove the connection;
\* a send that raises leaves the handler before the remove
HandlerFails(c) ==
    /\ ws_pc' = [ws_pc EXCEPT ![c] = "ended"]
    /\ \/ /\ ws_sent' = [ws_sent EXCEPT ![c] =
                            Append(@, [type |-> "error", about |-> ws_recv'[c],
                                       audio |-> <<>>])]
          /\ active_connections' = Remove(active_connections, c)
       \/ UNCHANGED <<ws_sent, active_connections>>

\* {"type": "audio_chunk", "audio": <base64>}
WsAudioChunk(c) ==
    /\ Receives(c, "audio_chunk")
    /\ ws_buffer' = [ws_buffer EXCEPT ![c] = Append(@, ws_recv[c] + 1)]
    /\ UNCHANGED <<WHISPER_AVAILABLE, active_connections, ws_pc, ws_sent,
                   http_pc, bible_collection>>

\* {"type": "audio_chunk"} without "audio", or with text b64decode rejects
WsBadChunk(c) ==
    /\ Receives(c, "bad_audio_chunk")
    /\ HandlerFails(c)
    /\ UNCHANGED <<WHISPER_AVAILABLE, ws_buffer, http_pc, bible_collection>>

\* {"type": "process"}: the buffer is written to the temporary file and
\* whisper_model.transcribe is entered
WsProcessBegin(c) ==
    /\ Receives(c, "process")
    /\ ws_pc' = [ws_pc EXCEPT ![c] = "transcribing"]
    /\ UNCHANGED <<WHISPER_AVAILABLE, active_connections, ws_buffer, ws_sent,
                   http_pc, bible_collection>>

\* the buffer is left as it was after the transcription
WsProcessKeepsBuffer(c) ==
    /\ ws_pc[c] = "transcribing"
    /\ ws_sent' = [ws_sent EXCEPT ![c] =
                      Append(@, [type |-> "transcription", about |-> ws_recv[c],
                                 audio |-> ws_buffer[c]])]
    /\ ws_pc' = [ws_pc EXCEPT ![c] = "open"]
    /\ UNCHANGED <<WHISPER_AVAILABLE, active_connections, ws_buffer, ws_recv, ws_last,
                   ws_log, http_pc, bible_collection>>

\* the transcription and the search return: the buffer is reset and the
\* response sent
WsProcess(c) ==
    /\ ws_pc[c] = "transcribing"
    /\ ws_buffer' = [ws_buffer EXCEPT ![c] = <<>>]
    /\ ws_sent' = [ws_sent EXCEPT ![c] =
                      Append(@, [type |-> "transcription", about |-> ws_recv[c],
                                 audio |-> ws_buffer[c]])]
    /\ ws_pc' = [ws_pc EXCEPT ![c] = "open"]
    /\ UNCHANGED <<WHISPER_AVAILABLE, active_connections, ws_recv, ws_last,
                   ws_log, http_pc, bible_collection>>

\* whisper_model.transcribe, or the iteration of its segments, raises
WsProcessFails(c) ==
    /\ ws_pc[c] = "transcribing"
    /\ ws_last' = [ws_last EXCEPT ![c].kind = "process_failed"]
    /\ UNCHANGED <<ws_recv, ws_log>>
    /\ HandlerFails(c)
    /\ UNCHANGED <<WHISPER_AVAILABLE, ws_buffer, http_pc, bible_collection>>

\* a JSON object whose "type" is neither audio_chunk nor process
WsUnknownType(c) ==
    /\ Receives(c, "unknown_type")
    /\ UNCHANGED <<WHISPER_AVAILABLE, active_connections, ws_pc, ws_buffer, ws_sent,
                   http_pc, bible_collection>>

\* text that is not JSON: receive_json raises json.JSONDecodeError
WsMalformedJson(c) ==
    /\ Receives(c, "malformed_json")
    /\ HandlerFails(c)
    /\ UNCHANGED <<WHISPER_AVAILABLE, ws_buffer, http_pc, bible_collection>>

\* the client goes away: receive_json raises WebSocketDisconnect
WsDisconnect(c) ==
    /\ LoopIdle
    /\ ws_pc[c] = "open"
    /\ active_connections' = Remove(active_connections, c)
    /\ ws_pc' = [ws_pc EXCEPT ![c] = "ended"]
    /\ ws_last' = [ws_last EXCEPT ![c] = [kind |-> "disconnect", before |-> ws_buffer[c]]]
    /\ UNCHANGED <<WHISPER_AVAILABLE, ws_buffer, ws_recv, ws_sent, ws_log,
                   http_pc, bible_collection>>

\* POST /api/speech/transcribe: whisper_model.transcribe is entered
HttpTranscribeBegin ==
    /\ LoopIdle
    /\ WHISPER_AVAILABLE
    /\ http_pc' = "transcribe"
    /\ UNCHANGED <<WHISPER_AVAILABLE, active_connections, ws_pc, ws_buffer, ws_recv,
                   ws_sent, ws_last, ws_log, bible_collection>>

\* POST /api/search/semantic: embedding_model.encode is entered
HttpSemanticBegin ==
    /\ LoopIdle
    /\ bible_collection # None
    /\ http_pc' = "semantic"
    /\ UNCHANGED <<WHISPER_AVAILABLE, active_connections, ws_pc, ws_buffer, ws_recv,
                   ws_sent, ws_last, ws_log, bible_collection>>

\* POST /api/rebuild-index: the collection is deleted, a new one is created
\* and embedding_model.encode is entered for its first batch
HttpRebuildBegin ==
    /\ LoopIdle
    /\ http_pc' = "rebuild"
    /\ bible_collection' = "partial"
    /\ UNCHANGED <<WHISPER_AVAILABLE, active_connections, ws_pc, ws_buffer, ws_recv,
                   ws_sent, ws_last, ws_log>>

\* POST /api/rebuild-index when get_all_verses_from_db or create_collection
\* raises: the response is the 500 and bible_collection stays None
HttpRebuildFails ==
    /\ LoopIdle
    /\ bible_collection' = None
    /\ UNCHANGED <<WHISPER_AVAILABLE, active_connections, ws_pc, ws_buffer, ws_recv,
                   ws_sent, ws_last, ws_log, http_pc>>

\* the inference call of the HTTP request returns or raises, and the
\* response is sent
HttpEnd ==
    /\ http_pc # "idle"
    /\ http_pc' = "idle"
    /\ \/ /\ http_pc = "rebuild"
          /\ bible_collection' = "rebuilt"
       \/ UNCHANGED bible_collection
    /\ UNCHANGED <<WHISPER_AVAILABLE, active_connections, ws_pc, ws_buffer, ws_recv,
                   ws_sent, ws_last, ws_log>>

(***************************************************************************)
(* One call of a function of the resolution pipeline: Init draws the       *)
(* function and its arguments, the step applies it.                        *)
(***************************************************************************)
MaxTopK == 5             \* the largest top_k a call is made with

\* top_k is a number of matches
TopKs == 0..MaxTopK

\* thresholds, in hundredths
Thresholds == {0, 10, 45, 91}

SemanticInputs ==
    {[embeddings |-> e, sims |-> sv, top_k |-> k, threshold |-> th] :
        e \in {NoneInt, Len(verses)}, sv \in SimilarityVectors,
        k \in TopKs, th \in Thresholds}

\* str.upper() on ASCII
UpperChar(c) == LET i == IndexIn(c, LowerChars)
                IN  IF i > 0 THEN CharAt(UpperChars, i) ELSE c

RECURSIVE upper(_)
upper(s) == IF s = "" THEN "" ELSE UpperChar(Head(s)) \o upper(Tail(s))

\* an alias as a speaker or a transcript may write it
Spellings(key) ==
    {key, upper(key), UpperChar(Head(key)) \o Tail(key), "  " \o upper(key) \o " \n"}

\* the alias keys in their spellings, and the canonical names themselves
BookInputs ==
    UNION {{[book_text |-> t, canonical |-> BOOK_NAMES[i][2]] :
               t \in Spellings(BOOK_NAMES[i][1])} : i \in 1..Len(BOOK_NAMES)}
    \cup {[book_text |-> BOOK_NAMES[i][2], canonical |-> BOOK_NAMES[i][2]] :
             i \in 1..Len(BOOK_NAMES)}

DetectInputs == {[text |-> t] : t \in DetectTexts}

\* the reference strings detect_bible_references returns on the texts
BackendFirstTable == [t \in DetectTexts |-> detect_bible_references(t)]
DetectOutputs ==
    UNION {{BackendFirstTable[t][i] : i \in 1..Len(BackendFirstTable[t])} :
              t \in DetectTexts}

\* the references parse_reference is called with on its own
ParseInputs == RefInputs \cup {"John 3:17-16", "Romans 8-9", "John 3:16-16"}

BackendReferenceTable ==
    [t \in DetectTexts \cup DetectOutputs |-> BackendReferences(t)]
ParseCallTable == [r \in ParseInputs |-> parse_reference(r)]

VARIABLES
    fn_pc,       \* "off", "called" or "returned"
    fn_name,     \* the function called
    fn_args,     \* its arguments
    fn_result    \* what it returned

callVars == <<fn_pc, fn_name, fn_args, fn_result>>

CallsInit ==
    /\ fn_pc = "called"
    /\ fn_result = <<>>
    /\ \/ fn_name = "semantic_search" /\ fn_args \in SemanticInputs
       \/ fn_name = "normalize_book" /\ fn_args \in BookInputs
       \/ fn_name = "detect_bible_references" /\ fn_args \in DetectInputs
       \/ fn_name = "BibleEngine.detect_bible_references" /\ fn_args \in DetectInputs
       \/ fn_name = "parse_reference" /\ fn_args \in {[reference |-> r] : r \in ParseInputs}

Returns(name, result) ==
    /\ fn_pc = "called" /\ fn_name = name
    /\ fn_pc' = "returned"
    /\ fn_result' = result
    /\ UNCHANGED <<fn_name, fn_args>>

\* BibleEngine.semantic_search(text, top_k, threshold)
CallSemanticSearch ==
    /\ fn_name = "semantic_search"
    /\ \E order \in Argsorts(fn_args.sims) :
          Returns("semantic_search",
                  semantic_search(fn_args.embeddings, fn_args.sims, order,
                                  fn_args.top_k, fn_args.threshold))

\* normalize_book(book_text)
CallNormalizeBook ==
    /\ fn_name = "normalize_book"
    /\ Returns("normalize_book", normalize_book(fn_args.book_text))

\* detect_bible_references(text) of the backend
CallDetectBackend ==
    /\ fn_name = "detect_bible_references"
    /\ Returns("detect_bible_references",
               UniqueRefs(BackendReferenceTable[fn_args.text], 1, {}))

\* BibleEngine.detect_bible_references(text)
CallDetectEngine ==
    /\ fn_name = "BibleEngine.detect_bible_references"
    /\ \E result \in detect_bible_references_engine(fn_args.text) :
          Returns("BibleEngine.detect_bible_references", result)

\* detect_bible_references(r) for a reference r the call before returned
CallDetectOnOutput ==
    /\ fn_pc = "returned" /\ fn_name = "detect_bible_references"
    /\ DOMAIN fn_args = {"text"}
    /\ \E r \in {fn_result[i] : i \in 1..Len(fn_result)} :
          /\ fn_args' = [text |-> r, returned_for |-> fn_args.text]
          /\ fn_result' = UniqueRefs(BackendReferenceTable[r], 1, {})
    /\ UNCHANGED <<fn_pc, fn_name>>

\* parse_reference(reference)
CallParseReference ==
    /\ fn_name = "parse_reference"
    /\ Returns("parse_reference", ParseCallTable[fn_args.reference])

vars == <<engineVars, searchVars, wsVars, callVars>>

\* the engine is not running
EngineOff ==
    /\ window_size = sample_rate * 3
    /\ verse_embeddings = NoneInt
    /\ audio_buffer = EmptyBuffer
    /\ stdout = <<>>
    /\ stderr = <<>>
    /\ listening = FALSE
    /\ triggers = 0
    /\ last_window = EmptyBuffer
    /\ call = NoCall

\* no search_for_verses call is in progress
SearchOff ==
    /\ sv_pc = "off"
    /\ references = <<>>
    /\ paraphrases = <<>>
    /\ ref_i = 1
    /\ para_j = 1
    /\ all_verses = <<>>
    /\ seen_references = {}
    /\ hits = <<>>

\* no WebSocket connection is made
WsOff ==
    /\ WHISPER_AVAILABLE = FALSE
    /\ active_connections = <<>>
    /\ ws_pc = [c \in Sessions |-> "none"]
    /\ ws_buffer = [c \in Sessions |-> <<>>]
    /\ ws_recv = [c \in Sessions |-> 0]
    /\ ws_sent = [c \in Sessions |-> <<>>]
    /\ ws_last = [c \in Sessions |-> NoMessage]
    /\ ws_log = [c \in Sessions |-> <<>>]
    /\ http_pc = "idle"
    /\ bible_collection = "startup"

\* no function is called on its own
CallsOff ==
    /\ fn_pc = "off"
    /\ fn_name = "none"
    /\ fn_args = <<>>
    /\ fn_result = <<>>

\* The pipe engine: one run of listen()
Init == EngineInit /\ SearchOff /\ WsOff /\ CallsOff

Next == \/ ListenBadAudio /\ UNCHANGED <<searchVars, wsVars, callVars>>
        \/ ListenAudio /\ UNCHANGED <<searchVars, wsVars, callVars>>
        \/ ListenCommand /\ UNCHANGED <<searchVars, wsVars, callVars>>
        \/ ListenEOF /\ UNCHANGED <<searchVars, wsVars, callVars>>

Spec == Init /\ [][Next]_vars

\* The backend: one call of search_for_verses
InitSearch == SearchInit /\ EngineOff /\ WsOff /\ CallsOff

NextSearch == \/ SearchExplicit /\ UNCHANGED <<engineVars, wsVars, callVars>>
              \/ SearchSemantic /\ UNCHANGED <<engineVars, wsVars, callVars>>
              \/ SearchReturn /\ UNCHANGED <<engineVars, wsVars, callVars>>

SpecSearch == InitSearch /\ [][NextSearch]_vars

\* The backend: the WebSocket sessions of one server process
InitWS == WsInit /\ EngineOff /\ SearchOff /\ CallsOff

NextWS ==
    \/ \E c \in Sessions :
        \/ WsConnect(c) /\ UNCHANGED <<engineVars, searchVars, callVars>>
        \/ WsReject(c) /\ UNCHANGED <<engineVars, searchVars, callVars>>
        \/ WsOpen(c) /\ UNCHANGED <<engineVars, searchVars, callVars>>
        \/ WsAudioChunk(c) /\ UNCHANGED <<engineVars, searchVars, callVars>>
        \/ WsBadChunk(c) /\ UNCHANGED <<engineVars, searchVars, callVars>>
        \/ WsProcessBegin(c) /\ UNCHANGED <<engineVars, searchVars, callVars>>
        \/ WsProcess(c) /\ UNCHANGED <<engineVars, searchVars, callVars>>
        \/ WsProcessFails(c) /\ UNCHANGED <<engineVars, searchVars, callVars>>
        \/ WsUnknownType(c) /\ UNCHANGED <<engineVars, searchVars, callVars>>
        \/ WsMalformedJson(c) /\ UNCHANGED <<engineVars, searchVars, callVars>>
        \/ WsDisconnect(c) /\ UNCHANGED <<engineVars, searchVars, callVars>>
    \/ HttpTranscribeBegin /\ UNCHANGED <<engineVars, searchVars, callVars>>
    \/ HttpSemanticBegin /\ UNCHANGED <<engineVars, searchVars, callVars>>
    \/ HttpRebuildBegin /\ UNCHANGED <<engineVars, searchVars, callVars>>
    \/ HttpRebuildFails /\ UNCHANGED <<engineVars, searchVars, callVars>>
    \/ HttpEnd /\ UNCHANGED <<engineVars, searchVars, callVars>>

SpecWS == InitWS /\ [][NextWS]_vars

\* The pipeline's functions, one call each
InitCalls == CallsInit /\ EngineOff /\ SearchOff /\ WsOff

NextCalls == \/ CallSemanticSearch /\ UNCHANGED <<engineVars, searchVars, wsVars>>
             \/ CallNormalizeBook /\ UNCHANGED <<engineVars, searchVars, wsVars>>
             \/ CallDetectBackend /\ UNCHANGED <<engineVars, searchVars, wsVars>>
             \/ CallDetectEngine /\ UNCHANGED <<engineVars, searchVars, wsVars>>
             \/ CallDetectOnOutput /\ UNCHANGED <<engineVars, searchVars, wsVars>>
             \/ CallParseReference /\ UNCHANGED <<engineVars, searchVars, wsVars>>

SpecCalls == InitCalls /\ [][NextCalls]_vars

(***************************************************************************)
(* Claims about search_for_verses                                          *)
(***************************************************************************)
Resolvable(r) == ParseTable[r].raised = None /\ RowsTable[r] # <<>>

\* the reference strings of the verses the explicit references resolve to
ExplicitTargets ==
    UNION {{RowsTable[references[i]][k].reference :
               k \in 1..Len(RowsTable[references[i]])} : i \in 1..Len(references)}

\* the semantic matches above the similarity bar, in the order returned
Confident(results) == SelectSeq(results, LAMBDA h : h[2] > MinSimilarity)
SemanticTargets ==
    UNION {{verses[Confident(hits[j])[k][1]].reference :
               k \in 1..Len(Confident(hits[j]))} : j \in 1..Len(hits)}

ExplicitPart == SelectSeq(all_verses, LAMBDA e : e.score = NoneInt)
SemanticPart == SelectSeq(all_verses, LAMBDA e : e.score # NoneInt)

\* C3: the result never holds two entries with the same reference string, and
\* a verse reached by an explicit reference appears as the explicit entry (the
\* one without a score) even when a semantic match reaches it too.
C3_ReferenceUnique ==
    /\ \A i, j \in 1..Len(all_verses) :
          i # j => all_verses[i].reference # all_verses[j].reference
    /\ sv_pc = "returned" =>
          \A i \in 1..Len(all_verses) :
              all_verses[i].reference \in ExplicitTargets
                  => all_verses[i].score = NoneInt

\* C3 witness: a call returned in which a semantic match reached a verse that
\* an explicit reference had resolved, and two paraphrases reached one verse
C3_Witness ==
    /\ sv_pc = "returned"
    /\ ExplicitTargets \cap SemanticTargets # {}
    /\ Len(hits) = 2
    /\ \E k \in 1..Len(Confident(hits[1])), l \in 1..Len(Confident(hits[2])) :
          Confident(hits[1])[k][1] = Confident(hits[2])[l][1]

\* every candidate in the order the code meets it: the verses of each explicit
\* reference in the order of the list, then the confident matches of each
\* paraphrase in the order the index returned them
Candidates ==
    Flatten([i \in 1..Len(references) |->
                [k \in 1..Len(RowsTable[references[i]]) |->
                    RowsTable[references[i]][k].reference]])
    \o Flatten([j \in 1..Len(hits) |->
                [k \in 1..Len(Confident(hits[j])) |->
                    verses[Confident(hits[j])[k][1]].reference]])

FirstPos(q, x) == CHOOSE i \in 1..Len(q) : q[i] = x /\ \A j \in 1..(i - 1) : q[j] # x

\* C5: in the returned list every explicit verse precedes every semantic match,
\* explicit verses are in the order of the input references, and semantic
\* matches are in the order the matcher returned them.
C5_OrderPreserved ==
    sv_pc = "returned" =>
        /\ all_verses = ExplicitPart \o SemanticPart
        /\ \A i, j \in 1..Len(all_verses) :
              i < j => FirstPos(Candidates, all_verses[i].reference)
                         < FirstPos(Candidates, all_verses[j].reference)
        /\ \A i \in 1..Len(all_verses) :
              (all_verses[i].score = NoneInt)
                  <=> (all_verses[i].reference \in ExplicitTargets)

\* C5 witness: a returned list with two explicit verses from two references
\* and two semantic matches behind them
C5_Witness ==
    /\ sv_pc = "returned"
    /\ Len(references) = 2
    /\ Resolvable(references[1]) /\ Resolvable(references[2])
    /\ Len(ExplicitPart) >= 2
    /\ Len(SemanticPart) >= 2

\* C6: search_for_verses never raises; an unresolvable reference contributes
\* nothing, and every other reference and every paraphrase of the call is
\* still resolved.
C6_UnresolvableDropped ==
    /\ sv_pc # "raised"
    /\ sv_pc = "returned" =>
          /\ {ExplicitPart[i].reference : i \in 1..Len(ExplicitPart)} = ExplicitTargets
          /\ Len(hits) = Len(paraphrases)
          /\ SemanticTargets \subseteq
                {all_verses[i].reference : i \in 1..Len(all_verses)}

\* C6 witness: the three kinds of unresolvable reference exist, and a call
\* returned the verse of a resolvable reference that came after an
\* unresolvable one, with a paraphrase resolved too
C6_Witness ==
    /\ ParseTable["John"].raised = "Invalid reference format"
    /\ ParseTable["Hezekiah 1:1"].raised = "Book not found"
    /\ ParseTable["Mark 1:1"].raised = None /\ RowsTable["Mark 1:1"] = <<>>
    /\ sv_pc = "returned"
    /\ Len(references) = 2
    /\ ~Resolvable(references[1]) /\ Resolvable(references[2])
    /\ Len(ExplicitPart) >= 1
    /\ Len(SemanticPart) >= 1

(***************************************************************************)
(* Claims about the WebSocket sessions                                     *)
(***************************************************************************)
SentAbout(c, n) == SelectSeq(ws_sent[c], LAMBDA m : m.about = n)

\* C7: when handling a `process` request raises, one error message reports it
\* and the session stays usable for later messages.
C7_FailedProcessKeepsSession ==
    \A c \in Sessions :
        ws_last[c].kind = "process_failed" =>
            /\ ws_pc[c] = "open"
            /\ Len(SentAbout(c, ws_recv[c])) = 1
            /\ SentAbout(c, ws_recv[c])[1].type = "error"

\* C10: a message that is malformed JSON or of an unknown type is ignored:
\* nothing is sent for it, the audio buffer is unchanged, the session goes on.
C10_BadMessageIgnored ==
    \A c \in Sessions :
        ws_last[c].kind \in {"malformed_json", "unknown_type"} =>
            /\ ws_pc[c] = "open"
            /\ SentAbout(c, ws_recv[c]) = <<>>
            /\ ws_buffer[c] = ws_last[c].before

\* C11: when the transcription capability is unavailable, a session sends
\* exactly one error message at its start and ends: it receives no message,
\* buffers no audio, enters no inference call and sends no transcription.
C11_UnavailableEndsSession ==
    ~WHISPER_AVAILABLE =>
        \A c \in Sessions :
            /\ ws_pc[c] \in {"none", "accepted", "ended"}
            /\ ws_recv[c] = 0 /\ ws_log[c] = <<>> /\ ws_buffer[c] = <<>>
            /\ ws_sent[c] = IF ws_pc[c] = "ended"
                            THEN <<[type |-> "error", about |-> 0, audio |-> <<>>]>>
                            ELSE <<>>

C11_Witness ==
    /\ ~WHISPER_AVAILABLE
    /\ \A c \in Sessions : ws_pc[c] = "ended" /\ Len(ws_sent[c]) = 1

Transcriptions(c) == SelectSeq(ws_sent[c], LAMBDA m : m.type = "transcription")

\* the numbers of the audio_chunk messages received after message lo and
\* before message hi
ChunksBetween(c, lo, hi) ==
    SelectSeq([i \in 1..(hi - lo - 1) |-> lo + i],
              LAMBDA n : ws_log[c][n] = "audio_chunk")

\* C12: each `process` message transcribes exactly the audio_chunk messages
\* received since the session start or since the previous `process`,
\* whatever their number, and leaves the buffer empty.
C12_ProcessFlushesBuffer ==
    \A c \in Sessions :
        LET ts == Transcriptions(c)
        IN  /\ \A k \in 1..Len(ts) :
                   ts[k].audio = ChunksBetween(c, IF k = 1 THEN 0 ELSE ts[k - 1].about,
                                                ts[k].about)
            /\ \A n \in 1..Len(ws_log[c]) :
                   (ws_log[c][n] = "process" /\ (n < ws_recv[c] \/ ws_pc[c] = "open"))
                       => \E k \in 1..Len(ts) : ts[k].about = n
            /\ (ws_last[c].kind = "process" /\ ws_pc[c] = "open") => ws_buffer[c] = <<>>

C12_Witness ==
    \E c \in Sessions :
        /\ Len(Transcriptions(c)) = 2
        /\ Transcriptions(c)[1].audio # <<>>
        /\ Transcriptions(c)[2].audio = <<>>

\* the tasks that are inside an inference call
InInference ==
    {c \in Sessions : ws_pc[c] = "transcribing"}
        \cup (IF http_pc = "idle" THEN {} ELSE {"http"})

\* C13: at no time are two sessions or requests inside an inference call.
C13_InferenceSerialized == Cardinality(InInference) <= 1

C13_Witness ==
    \E c, d \in Sessions :
        /\ c # d
        /\ ws_pc[c] = "transcribing"
        /\ ws_pc[d] = "open" /\ ws_last[d].kind = "audio_chunk"
        /\ ws_recv[d] < MaxMessages

\* C14: while a session or request is inside an inference call, every other
\* open session can receive an audio_chunk message and append it.
C14_AccumulationNeverWaits ==
    \A d \in Sessions :
        (/\ InInference \ {d} # {}
         /\ ws_pc[d] = "open"
         /\ ws_recv[d] < MaxMessages) => ENABLED WsAudioChunk(d)

\* C15: the embedding index loaded at process start is never mutated while
\* the process runs.
C15_IndexNeverMutated == bible_collection = "startup"

(***************************************************************************)
(* Claims about the functions of the pipeline                              *)
(***************************************************************************)
Returned(name) == fn_pc = "returned" /\ fn_name = name

\* f"{book} {chap}:{verse}" of a row of the verse cache
CacheReference(idx) ==
    verses[idx].book \o " " \o ToString(verses[idx].chapter) \o ":"
        \o ToString(verses[idx].verse)

\* C16: semantic_search returns at most top_k matches, each with a score of
\* at least the threshold, in order of non-increasing score, each with the
\* reference of the cache row whose similarity it reports; with no index
\* loaded it returns the empty list.
C16_SemanticSearchContract ==
    Returned("semantic_search") =>
        /\ Len(fn_result) <= fn_args.top_k
        /\ \A i \in 1..Len(fn_result) : fn_result[i].score >= fn_args.threshold
        /\ \A i, j \in 1..Len(fn_result) :
               i < j => fn_result[i].score >= fn_result[j].score
        /\ \A i \in 1..Len(fn_result) :
               \E idx \in 1..Len(fn_args.sims) :
                   /\ fn_result[i].score = fn_args.sims[idx]
                   /\ fn_result[i].reference = CacheReference(idx)
        /\ fn_args.embeddings = NoneInt => fn_result = <<>>

C16_Witness ==
    /\ Returned("semantic_search")
    /\ Len(fn_result) >= 2 /\ Len(fn_result) < fn_args.top_k
    /\ fn_result[1].score > fn_result[2].score

\* C17: normalize_book maps every alias key, in any letter case and with
\* surrounding whitespace, to the canonical book of the key, and every
\* canonical name to itself; the exact lookup wins over the prefix scan.
C17_AliasesResolve ==
    Returned("normalize_book") => fn_result = fn_args.canonical

C17_Witness ==
    /\ Returned("normalize_book")
    /\ fn_args.book_text # strip(lower(fn_args.book_text))
    /\ fn_result = fn_args.canonical
    /\ LookupBookPrefixOnly(BOOK_NAMES, strip(lower(fn_args.book_text))) # fn_result

\* the elements of a sequence, each at its first position
FirstOccurrences(q) ==
    Flatten([i \in 1..Len(q) |->
                IF \E j \in 1..(i - 1) : q[j] = q[i] THEN <<>> ELSE <<q[i]>>])

\* C18: detect_bible_references, of the backend and of the engine, returns
\* the references the patterns produced without repetition and in the order
\* in which they were first produced.
C18_DetectKeepsFirstSeenOrder ==
    /\ Returned("detect_bible_references") =>
           fn_result = FirstOccurrences(BackendReferenceTable[fn_args.text])
    /\ Returned("BibleEngine.detect_bible_references") =>
           fn_result = FirstOccurrences(EngineReferenceTable[fn_args.text])

\* C19: the backend returns ["John 3:16"] for "Turn with me to John chapter
\* 3 verse 16" and ["Romans 8:28-30"] for "Let's look at Romans 8:28-30".
C19_SpokenAndRangeScenarios ==
    Returned("detect_bible_references") =>
        /\ fn_args.text = "Turn with me to John chapter 3 verse 16"
               => fn_result = <<"John 3:16">>
        /\ fn_args.text = "Let's look at Romans 8:28-30"
               => fn_result = <<"Romans 8:28-30">>

C19_Witness ==
    /\ Returned("detect_bible_references")
    /\ fn_args.text = "Let's look at Romans 8:28-30"
    /\ fn_result = <<"Romans 8:28-30">>

\* C20: detect_bible_references returns ["1 John 1:9"] for "First John
\* chapter one verse nine".
C20_SpelledOutNumbers ==
    Returned("detect_bible_references") =>
        (fn_args.text = "First John chapter one verse nine"
            => fn_result = <<"1 John 1:9">>)

(***************************************************************************)
(* Claims about the pipe engine                                            *)
(***************************************************************************)
Overlap == sample_rate

References(matches) == {matches[i].reference : i \in 1..Len(matches)}

\* C1: transcription is invoked only on a buffer of at least window_size
\* samples, and right after every trigger the buffer is the last `overlap`
\* samples of the buffer that was transcribed.
C1_TriggerLeavesOverlap ==
    (call.op = "audio" /\ call.triggered) =>
        /\ BufLen(call.window) >= window_size
        /\ BufLen(audio_buffer) <= Overlap
        /\ audio_buffer = LastSamples(call.window, Overlap)

\* C2: with window_size = 32000 and overlap = 16000, once 40000 samples have
\* been fed, in any split into chunks, exactly one trigger has fired and the
\* buffer holds 16000 samples plus the samples appended after the trigger.
C2_ScenarioOneTrigger ==
    (window_size = 32000 /\ audio_buffer.hi = 40000) =>
        /\ triggers = 1
        /\ BufLen(audio_buffer) = 16000 + (audio_buffer.hi - last_window.hi)

\* C4: in every transcription message no reference string appears both in
\* `matches` and in `semantic_matches`.
C4_SemanticNotExplicit ==
    \A i \in 1..Len(stdout) :
        stdout[i].type = "transcription" =>
            References(stdout[i].matches) \cap References(stdout[i].semantic_matches) = {}

\* C8: when a trigger raises inside process_audio the loop keeps running, the
\* buffer is cut to at most `overlap` samples as after a successful trigger,
\* and the next trigger does not transcribe the failed window's audio again.
C8_FailedWindowDropped ==
    [][(call.op = "audio" /\ call.triggered /\ call.raised # None) =>
          /\ listening
          /\ BufLen(audio_buffer) <= Overlap
          /\ (call'.triggered => call'.window.lo >= call.window.hi - Overlap)]_vars

SearchCommandLines ==
    {"{\"action\":\"search\",\"reference\":\"John 3:16\"}\n",
     "{\"action\":\"search\",\"reference\":\"Mark 1:1\"}\n",
     "{\"action\":\"search\",\"reference\":null}\n"}

\* C22: the chunk passed to process_audio after an AUDIO:<N> line is exactly
\* the N bytes that follow the line in the stream, and every search command
\* with a reference is answered with exactly one search_result message.
C22_FramingAndAnswers ==
    /\ call.op = "audio" => call.ahead = 0
    /\ (call.op = "command" /\ call.line \in SearchCommandLines) =>
           /\ Len(stdout) = 1
           /\ stdout[1].type = "search_result"

\* C24: when a trigger yields a transcript that is empty or not longer than
\* 10 characters, no detection or semantic search is run, nothing is printed
\* for the window, and the buffer is cut to its last `overlap` samples.
C24_ShortTranscriptDiscarded ==
    (/\ call.op = "audio" /\ call.triggered /\ call.raised = None
     /\ Len(call.text) <= MinTextLen) =>
        /\ ~call.searched
        /\ stdout = <<>>
        /\ audio_buffer = LastSamples(call.window, Overlap)
        /\ BufLen(audio_buffer) <= Overlap

C24_Witness ==
    /\ call.op = "audio" /\ call.triggered /\ call.raised = None
    /\ call.text = "Amen"
    /\ stdout = <<>>
    /\ BufLen(call.window) > Overlap
    /\ BufLen(audio_buffer) = Overlap


(***************************************************************************)
(* Claims about re-detection, ties, parsed references, the index and the   *)
(* connection list                                                         *)
(***************************************************************************)
\* C21: running detect_bible_references on a reference string it returned
\* yields exactly that reference.
C21_DetectIdempotentOnOutput ==
    (Returned("detect_bible_references") /\ DOMAIN fn_args # {"text"}) =>
        fn_result = <<fn_args.text>>

\* the row of the verse cache a match was made from
RowOf(match) ==
    CHOOSE idx \in 1..Len(verses) : CacheReference(idx) = match.reference

\* C23: among the verses of one score, semantic_search returns the lower row
\* first, and a verse is returned only with every lower row of its score.
C23_TiesByIndex ==
    Returned("semantic_search") =>
        /\ \A i, j \in 1..Len(fn_result) :
               (i < j /\ fn_result[i].score = fn_result[j].score)
                   => RowOf(fn_result[i]) < RowOf(fn_result[j])
        /\ \A i \in 1..Len(fn_result) : \A idx \in 1..Len(fn_args.sims) :
               (idx < RowOf(fn_result[i])
                    /\ fn_args.sims[idx] = fn_args.sims[RowOf(fn_result[i])])
                   => \E j \in 1..Len(fn_result) : RowOf(fn_result[j]) = idx

\* C25: a record parse_reference returns has no end_verse when it has no
\* start_verse, and otherwise an end_verse of at least start_verse, equal to
\* it when the input gives none.
C25_VerseReferenceInvariant ==
    (Returned("parse_reference") /\ fn_result.raised = None) =>
        IF fn_result.start_verse = NoneInt THEN fn_result.end_verse = NoneInt
        ELSE fn_result.end_verse >= fn_result.start_verse

\* C28: an ordinal-prefixed book cited once yields only the reference to
\* the prefixed book with its verse.
C28_OrdinalBookCitedOnce ==
    (Returned("detect_bible_references")
        /\ fn_args.text \in {"First John chapter 3 verse 16", "First John 3:16"})
        => fn_result = <<"1 John 3:16">>

\* C26: a semantic search runs only on an index that has one row for each
\* verse of the store.
C26_IndexCoversVerses ==
    http_pc = "semantic" => bible_collection \in {"startup", "rebuilt"}

\* the sessions whose handler has not returned
OpenSessions == {c \in Sessions : ws_pc[c] \in {"accepted", "open", "transcribing"}}

\* C27: active_connections holds each session that is still open once and
\* no session that has ended.
C27_ConnectionsAreOpenSessions ==
    /\ {active_connections[i] : i \in 1..Len(active_connections)} = OpenSessions
    /\ Len(active_connections) = Cardinality(OpenSessions)

====
